---- MODULE Spec2Model ----
(***************************************************************************)
(* State-machine model of the task / stamp / workspace lifecycle manager   *)
(* of mcp-agent: services/stamp_manager.py (Identity Store),               *)
(* services/workspace_manager.py (Workspace Store),                        *)
(* services/task_manager.py (Task Ledger + Lifecycle Manager),             *)
(* utils/process_runner.py (Process Supervisor) and the handlers that      *)
(* front them.  The service is one asyncio event loop: code between two    *)
(* awaits runs atomically, and every await is a point where another        *)
(* request may run.  Each action below is one such atomic segment.         *)
(***************************************************************************)
EXTENDS Integers, Sequences, FiniteSets, TLC

(* ------------------------------ bounds -------------------------------- *)
\* the wall clock runs over the seconds 0..MaxTime
MaxTime == 1
\* the history log holds at most MaxHistory records
MaxHistory == 3
\* at most MaxProcs scripts are ever spawned
MaxProcs == 2
\* number of requests that may be in flight (suspended at an await) at once
NumSlots == 2
\* a stamp holds at most MaxEvents events
MaxEvents == 1
\* a tool log holds at most MaxToolRuns entries
MaxToolRuns == 1
\* a deployed script writes at most MaxLines lines to its log
MaxLines == 2

\* values of the 4-hex-digit short hash of a stamp id (16^4 in the code)
Hashes == {1, 2}
\* process ids the operating system hands out (and reuses)
Pids == {1, 2}
Slots == 1..NumSlots
Times == 0..MaxTime

(* ------------------------------ values -------------------------------- *)
\* Python None / a missing key
None == -1
\* a stamp id SHADOW-<date>-<time>-<hash> is the pair <<second, hash>>
StampIds == Times \X Hashes
\* any string that sanitize_stamp rejects
BadStamp == <<None, None>>
\* stamp = None or "" (an optional filter that is not given)
NoStamp == <<None, 0>>
\* a task id T<unix_ts> is its second
TaskIds == Times
StampStatuses == {"active", "paused", "completed", "failed"}
StatusArgs == StampStatuses \cup {"bogus"}
Severities == {"critical", "high", "medium", "low", "info"}
SeverityArgs == {"high", "urgent"}
EventTypes == {"", "note"}
Limits == {1, 50}
\* stamp arguments a caller may send
StampArgs == StampIds \cup {BadStamp}
\* file names and script contents are sequences of characters
ScanSh == <<"s", ".", "s", "h">>
Letters == {"a", "b", "c", "d", "e", "f", "g", "h", "i", "j", "k", "l", "m",
            "n", "o", "p", "q", "r", "s", "t", "u", "v", "w", "x", "y", "z",
            "A", "B", "C", "D", "E", "F", "G", "H", "I", "J", "K", "L", "M",
            "N", "O", "P", "Q", "R", "S", "T", "U", "V", "W", "X", "Y", "Z"}
Digits == {"0", "1", "2", "3", "4", "5", "6", "7", "8", "9"}
Whitespace == {" ", "\t", "\n", "\r"}
\* the characters of the pattern [a-zA-Z0-9_\-\.]
NameChars == Letters \cup Digits \cup {"_", "-", "."}

VARIABLES
    now,        \* wall clock, in seconds
    active,     \* active_stamps.json: stamp id -> stamp_data
    history,    \* history.jsonl: sequence of records
    files,      \* WORKSPACE_ROOT: stamp id (existing directory) -> file name -> text
    todos,      \* todo.json: the task ledger, a sequence of task records
    procs,      \* every process ever spawned: [pid, alive]
    req,        \* the requests suspended at an await, one per slot
    last        \* the step just taken: operation, arguments and returned result

vars == <<now, active, history, files, todos, procs, req, last>>

(* ------------------------------ helpers ------------------------------- *)
Idle == [op |-> "idle"]

\* the record of a step that changed the program's state
Result(op, stamp, task_id, success, error, data) ==
    [op |-> op, stamp |-> stamp, task_id |-> task_id,
     success |-> success, error |-> error, data |-> data, quiet |-> FALSE]

\* the record of a request that returned without changing anything
Report(op, stamp, task_id, success, error, data) ==
    [op |-> op, stamp |-> stamp, task_id |-> task_id,
     success |-> success, error |-> error, data |-> data, quiet |-> TRUE]

\* the record of a request that returned r, which tells whether it took effect
Returned(op, stamp, task_id, r, data) ==
    IF r.success THEN Result(op, stamp, task_id, TRUE, r.error, data)
    ELSE Report(op, stamp, task_id, FALSE, r.error, data)

Put(f, k, v) == [x \in DOMAIN f \cup {k} |-> IF x = k THEN v ELSE f[x]]

Drop(f, k) == [x \in DOMAIN f \ {k} |-> f[x]]

Contains(seq, x) == \E i \in 1..Len(seq) : seq[i] = x

\* history[-limit:] of Python: the last limit elements; all of them when limit = 0
LastN(seq, limit) ==
    IF limit = 0 \/ limit >= Len(seq) THEN seq
    ELSE SubSeq(seq, Len(seq) - limit + 1, Len(seq))

EndsWith(s, suffix) ==
    /\ Len(s) >= Len(suffix)
    /\ SubSeq(s, Len(s) - Len(suffix) + 1, Len(s)) = suffix

HasSub(s, sub) ==
    \E i \in 1..(Len(s) - Len(sub) + 1) : SubSeq(s, i, i + Len(sub) - 1) = sub

\* str(int): the decimal digit of a one-digit number
Digit(n) == <<"0", "1", "2", "3", "4", "5", "6", "7", "8", "9">>[n + 1]

(* utils/security.py *)
sanitize_stamp(stamp) == stamp \in StampIds

\* a validation that does not look for ".."
sanitize_script_name_no_dotdot(script_name) ==
    /\ script_name # << >>
    /\ EndsWith(script_name, <<".", "p", "y">>) \/ EndsWith(script_name, <<".", "s", "h">>)
    /\ \A i \in 1..Len(script_name) :
           script_name[i] \in NameChars

sanitize_script_name(script_name) ==
    /\ script_name # << >>
    /\ EndsWith(script_name, <<".", "p", "y">>) \/ EndsWith(script_name, <<".", "s", "h">>)
    /\ ~HasSub(script_name, <<".", ".">>)
    /\ ~HasSub(script_name, <<"/">>)
    /\ ~HasSub(script_name, <<"\\">>)
    /\ \A i \in 1..Len(script_name) :
           script_name[i] \in NameChars

\* not script_content or len(script_content.strip()) == 0
is_blank(script_content) ==
    \A i \in 1..Len(script_content) : script_content[i] \in Whitespace

(* ------------------- the text of a stamp id -------------------------- *)
\* "%02d" of a number below 100
Pad2(n) == <<Digit(n \div 10), Digit(n % 10)>>
\* strftime("%Y%m%d") of the clock, t seconds after midnight of 2025-01-01
strftime_date(t) == <<"2", "0", "2", "5">> \o Pad2(1) \o Pad2(1 + (t \div 86400))
\* the hour, minute and second written without the leading zeros
strftime_time_unpadded(t) ==
    <<Digit(((t \div 3600) % 24) % 10), Digit(((t \div 60) % 60) % 10), Digit((t % 60) % 10)>>
\* strftime("%H%M%S")
strftime_time(t) == Pad2((t \div 3600) % 24) \o Pad2((t \div 60) % 60) \o Pad2(t % 60)
HexDigit(n) ==
    <<"0", "1", "2", "3", "4", "5", "6", "7", "8", "9", "A", "B", "C", "D", "E", "F">>[n + 1]
\* hexdigest()[:4].upper() of a digest whose first 16 bits are h
short_hash(h) ==
    <<HexDigit((h \div 4096) % 16), HexDigit((h \div 256) % 16),
      HexDigit((h \div 16) % 16), HexDigit(h % 16)>>
\* f"SHADOW-{date_str}-{time_str}-{short_hash}": the text of the id <<t, h>>
stamp_text(stamp) ==
    <<"S", "H", "A", "D", "O", "W", "-">> \o strftime_date(stamp[1]) \o <<"-">>
        \o strftime_time(stamp[1]) \o <<"-">> \o short_hash(stamp[2])

(* ------------------------- Workspace Store ---------------------------- *)
\* a store that takes every workspace to exist
workspace_exists_always(F, stamp) == TRUE

workspace_exists(F, stamp) == stamp \in DOMAIN F

create_workspace(F, stamp) == IF stamp \in DOMAIN F THEN F ELSE Put(F, stamp, << >>)

\* script_path.write_text(script_content)
save_script(F, stamp, script_name, script_content) ==
    LET G == create_workspace(F, stamp)
    IN [G EXCEPT ![stamp] = Put(@, script_name, script_content)]

\* str(n) of a natural number
RECURSIVE str(_)
str(n) == IF n < 10 THEN <<Digit(n)>> ELSE str(n \div 10) \o <<Digit(n % 10)>>

\* the position of the first c in text from position i on, 0 when there is none
RECURSIVE Find(_, _, _)
Find(text, c, i) ==
    IF i > Len(text) THEN 0 ELSE IF text[i] = c THEN i ELSE Find(text, c, i + 1)

\* text.split(c)
RECURSIVE Split(_, _)
Split(text, c) ==
    LET k == Find(text, c, 1)
    IN IF k = 0 THEN <<text>>
       ELSE <<SubSeq(text, 1, k - 1)>> \o Split(SubSeq(text, k + 1, Len(text)), c)

\* text.splitlines() for the line boundary "\n": no line after a final "\n"
splitlines(text) ==
    IF text = << >> THEN << >>
    ELSE IF text[Len(text)] = "\n" THEN Split(SubSeq(text, 1, Len(text) - 1), "\n")
    ELSE Split(text, "\n")

\* "\n".join(lines)
RECURSIVE join(_)
join(lines) ==
    IF lines = << >> THEN << >>
    ELSE IF Len(lines) = 1 THEN lines[1]
    ELSE lines[1] \o <<"\n">> \o join(Tail(lines))

\* lines[:n] of Python
SliceTo(lines, n) ==
    IF n >= 0 THEN SubSeq(lines, 1, IF n < Len(lines) THEN n ELSE Len(lines))
    ELSE SubSeq(lines, 1, IF Len(lines) + n > 0 THEN Len(lines) + n ELSE 0)

\* f"\n... [截断，共 {total} 行]" (the characters outside ASCII by their code points)
TruncationNote(total) ==
    <<"\n", ".", ".", ".", " ", "[", "U+622A", "U+65AD", "U+FF0C", "U+5171", " ">>
        \o str(total) \o <<" ", "U+884C", "]">>

\* a read that keeps the last max_lines lines
truncate_tail(lines, max_lines) ==
    IF Len(lines) > max_lines
    THEN join(LastN(lines, max_lines)) \o TruncationNote(Len(lines))
    ELSE join(lines)

\* the text read_file makes of the lines of a file
truncate(lines, max_lines) ==
    IF Len(lines) > max_lines
    THEN join(SliceTo(lines, max_lines)) \o TruncationNote(Len(lines))
    ELSE join(lines)

\* places of the file system as seen from WORKSPACE_ROOT: the root itself, the
\* directory of a stamp, a file in it, a place outside the root, no place
AtRoot == [k |-> "root", s |-> NoStamp, n |-> << >>]
AtDir(stamp) == [k |-> "dir", s |-> stamp, n |-> << >>]
AtFile(stamp, name) == [k |-> "file", s |-> stamp, n |-> name]
Outside == [k |-> "outside", s |-> NoStamp, n |-> << >>]
Nowhere == [k |-> "none", s |-> NoStamp, n |-> << >>]

\* the place the operating system reaches from the place at along the
\* components parts of a path
RECURSIVE Walk(_, _, _)
Walk(F, at, parts) ==
    IF parts = << >> \/ at.k \in {"outside", "none"} THEN at
    ELSE LET part == Head(parts)
             rest == Tail(parts)
         IN IF at.k = "file" THEN Nowhere
            ELSE IF part = << >> \/ part = <<".">> THEN Walk(F, at, rest)
            ELSE IF part = <<".", ".">>
            THEN Walk(F, IF at.k = "dir" THEN AtRoot ELSE Outside, rest)
            ELSE IF at.k = "root"
            THEN LET S == {x \in DOMAIN F \cap StampIds : stamp_text(x) = part}
                 IN IF S = {} THEN Nowhere ELSE Walk(F, AtDir(CHOOSE x \in S : TRUE), rest)
            ELSE IF part \in DOMAIN F[at.s] THEN Walk(F, AtFile(at.s, part), rest)
            ELSE Nowhere

\* workspace / filename: an absolute filename replaces the workspace path, and
\* what lies outside WORKSPACE_ROOT is not part of the model
file_path(F, stamp, filename) ==
    IF filename # << >> /\ filename[1] = "/" THEN Outside
    ELSE Walk(F, AtDir(stamp), Split(filename, "/"))

NotRead == [found |-> FALSE, text |-> << >>]

\* WorkspaceManager.read_file: None (NotRead) or the text
read_file(F, stamp, filename, max_lines) ==
    IF ~workspace_exists(F, stamp) THEN NotRead
    ELSE LET at == file_path(F, stamp, filename)
         IN IF at.k # "file" THEN NotRead
            ELSE [found |-> TRUE, text |-> truncate(splitlines(F[at.s][at.n]), max_lines)]

cleanup_workspace(F, stamp) == IF stamp \in DOMAIN F THEN Drop(F, stamp) ELSE F

\* the log of task T<task_id>: T<task_id>.log
LogName(task_id) == <<"T", Digit(task_id), ".", "l", "o", "g">>

(* ------------------------ Process Supervisor -------------------------- *)
LivePids(P) == {P[i].pid : i \in {j \in 1..Len(P) : P[j].alive}}

\* the processes that have terminated
Exited(P) == {p \in 1..Len(P) : ~P[p].alive}

\* what check_pid_running(pid) can return: ps finds the pid (return code 0), or
\* ps does not, or run_command times out or fails (return code -1)
check_pid_running(P, pid) == {pid \in LivePids(P), FALSE}

\* a kill command that does nothing
kill_nothing(P, pid) == P

\* kill -9 pid
kill(P, pid) == [i \in 1..Len(P) |-> IF P[i].pid = pid THEN [P[i] EXCEPT !.alive = FALSE] ELSE P[i]]

\* the interpreter is chosen by the extension of the script path
interpreter_known(script_name) ==
    EndsWith(script_name, <<".", "p", "y">>) \/ EndsWith(script_name, <<".", "s", "h">>)

(* -------------------------- Identity Store ---------------------------- *)
\* an optional list argument: given tells a list was passed, absent is None
Absent == [given |-> FALSE, list |-> << >>]
Given(list) == [given |-> TRUE, list |-> list]
\* tags or []
or_empty(tags) == IF tags.given /\ tags.list # << >> THEN tags.list ELSE << >>

\* a log file opened in mode "w": the record replaces what the file held
_write_history(H, record) == <<record>>

\* StampManager._append_to_history: the file is opened in mode "a" and one line
\* is written at its end
_append_to_history(H, record) == Append(H, record)

\* a generate that records the stamp and leaves the workspace to be made later
generate_no_workspace(A, H, F, t, h, mission_name, target, operator, tags) ==
    LET stamp == <<t, h>>
        stamp_data == [stamp |-> stamp, mission_name |-> mission_name,
                       target |-> target, operator |-> operator,
                       tags |-> or_empty(tags),
                       created_at |-> t, status |-> "active",
                       task_ids |-> << >>, findings |-> << >>, events |-> << >>,
                       archived_at |-> None]
    IN [active |-> Put(A, stamp, stamp_data),
        history |-> _append_to_history(H, [event |-> "stamp_created", timestamp |-> t,
                                           stamp |-> stamp, data |-> stamp_data]),
        files |-> F,
        stamp |-> stamp]

\* StampManager.generate: the id is built from the clock's second and the hash
generate(A, H, F, t, h, mission_name, target, operator, tags) ==
    LET stamp == <<t, h>>
        stamp_data == [stamp |-> stamp, mission_name |-> mission_name,
                       target |-> target, operator |-> operator,
                       tags |-> or_empty(tags),
                       created_at |-> t, status |-> "active",
                       task_ids |-> << >>, findings |-> << >>, events |-> << >>,
                       archived_at |-> None]
    IN [active |-> Put(A, stamp, stamp_data),
        history |-> _append_to_history(H, [event |-> "stamp_created", timestamp |-> t,
                               stamp |-> stamp, data |-> stamp_data]),
        files |-> create_workspace(F, stamp),
        stamp |-> stamp]

get_info(A, stamp) ==
    IF stamp \notin DOMAIN A
    THEN [success |-> FALSE, error |-> "not_found", data |-> None]
    ELSE [success |-> TRUE, error |-> "none", data |-> A[stamp]]

list_active(A) == [success |-> TRUE, count |-> Cardinality(DOMAIN A), stamps |-> DOMAIN A]

\* an association that appends without looking for the task id first
associate_task_unchecked(A, H, stamp, task_id, t) ==
    IF stamp \notin DOMAIN A
    THEN [active |-> A, history |-> H, success |-> FALSE, error |-> "not_found"]
    ELSE [active |-> [A EXCEPT ![stamp].task_ids = Append(@, task_id)],
          history |-> _append_to_history(H, [event |-> "task_associated", timestamp |-> t,
                                 stamp |-> stamp, task_id |-> task_id]),
          success |-> TRUE, error |-> "none"]

\* an association that writes back the record as the stamp was created (the
\* snapshot the log holds), with the task id added: what was written to the
\* stamp since is lost
associate_task_stale(A, H, stamp, task_id, t) ==
    IF stamp \notin DOMAIN A
    THEN [active |-> A, history |-> H, success |-> FALSE, error |-> "not_found"]
    ELSE LET made == {i \in 1..Len(H) : H[i].event = "stamp_created" /\ H[i].stamp = stamp}
             snapshot == IF made = {} THEN A[stamp]
                         ELSE H[CHOOSE i \in made : \A j \in made : j <= i].data
         IN [active |-> [A EXCEPT ![stamp] =
                             [snapshot EXCEPT !.task_ids = Append(@, task_id)]],
             history |-> _append_to_history(H, [event |-> "task_associated",
                                                timestamp |-> t, stamp |-> stamp,
                                                task_id |-> task_id]),
             success |-> TRUE, error |-> "none"]

\* an association that logs a record only when it adds the task id
associate_task_logs_new(A, H, stamp, task_id, t) ==
    IF stamp \notin DOMAIN A
    THEN [active |-> A, history |-> H, success |-> FALSE, error |-> "not_found"]
    ELSE IF Contains(A[stamp].task_ids, task_id)
         THEN [active |-> A, history |-> H, success |-> TRUE, error |-> "none"]
         ELSE [active |-> [A EXCEPT ![stamp].task_ids = Append(@, task_id)],
               history |-> _append_to_history(H, [event |-> "task_associated",
                                                  timestamp |-> t, stamp |-> stamp,
                                                  task_id |-> task_id]),
               success |-> TRUE, error |-> "none"]

associate_task(A, H, stamp, task_id, t) ==
    IF stamp \notin DOMAIN A
    THEN [active |-> A, history |-> H, success |-> FALSE, error |-> "not_found"]
    ELSE [active |-> IF ~Contains(A[stamp].task_ids, task_id)
                     THEN [A EXCEPT ![stamp].task_ids = Append(@, task_id)]
                     ELSE A,
          history |-> _append_to_history(H, [event |-> "task_associated", timestamp |-> t,
                                 stamp |-> stamp, task_id |-> task_id]),
          success |-> TRUE, error |-> "none"]

add_finding(A, H, stamp, vuln_type, severity, t) ==
    IF stamp \notin DOMAIN A
    THEN [active |-> A, history |-> H, success |-> FALSE, error |-> "not_found",
          finding_id |-> None]
    ELSE LET finding == [id |-> t, timestamp |-> t, type |-> vuln_type,
                         severity |-> severity]
         IN [active |-> [A EXCEPT ![stamp].findings = Append(@, finding)],
             history |-> _append_to_history(H, [event |-> "finding_added", stamp |-> stamp,
                                    timestamp |-> t, data |-> finding]),
             success |-> TRUE, error |-> "none", finding_id |-> finding.id]

add_event(A, stamp, event_type, t) ==
    IF stamp \notin DOMAIN A
    THEN [active |-> A, success |-> FALSE, error |-> "not_found"]
    ELSE [active |-> [A EXCEPT ![stamp].events =
                          Append(@, [timestamp |-> t, type |-> event_type])],
          success |-> TRUE, error |-> "none"]

update_status(A, H, stamp, status, t) ==
    IF stamp \notin DOMAIN A
    THEN [active |-> A, history |-> H, success |-> FALSE, error |-> "not_found"]
    ELSE [active |-> [A EXCEPT ![stamp].status = status],
          history |-> _append_to_history(H, [event |-> "status_updated", timestamp |-> t,
                                 stamp |-> stamp, status |-> status]),
          success |-> TRUE, error |-> "none"]

\* an archival that logs the record and leaves the stamp in the active collection
archive_keeps_active(A, H, stamp, t) ==
    IF stamp \notin DOMAIN A
    THEN [active |-> A, history |-> H, success |-> FALSE, error |-> "not_found"]
    ELSE LET stamp_data == [A[stamp] EXCEPT !.archived_at = t]
         IN [active |-> A,
             history |-> _append_to_history(H, [event |-> "stamp_archived", timestamp |-> t,
                                    stamp |-> stamp, data |-> stamp_data]),
             success |-> TRUE, error |-> "none"]

archive(A, H, stamp, t) ==
    IF stamp \notin DOMAIN A
    THEN [active |-> A, history |-> H, success |-> FALSE, error |-> "not_found"]
    ELSE LET stamp_data == [A[stamp] EXCEPT !.archived_at = t]
         IN [active |-> Drop(A, stamp),
             history |-> _append_to_history(H, [event |-> "stamp_archived", timestamp |-> t,
                                    stamp |-> stamp, data |-> stamp_data]),
             success |-> TRUE, error |-> "none"]

get_history(H, stamp, limit) ==
    LET keep == SelectSeq(H, LAMBDA r : stamp = NoStamp \/ r.stamp = stamp)
    IN [success |-> TRUE, history |-> LastN(keep, limit)]

(* ------------------------------ actions ------------------------------- *)
Init ==
    /\ now = 0
    /\ active = << >>
    /\ history = << >>
    /\ files = << >>
    /\ todos = << >>
    /\ procs = << >>
    /\ req = [k \in Slots |-> Idle]
    /\ last = Result("init", NoStamp, None, TRUE, "none", None)

Tick ==
    /\ now < MaxTime
    /\ now' = now + 1
    /\ last' = Result("tick", NoStamp, None, TRUE, "none", None)
    /\ UNCHANGED <<active, history, files, todos, procs, req>>

\* a handler that mints a stamp whatever the mission name and the target are
handle_generate_stamp_unvalidated(mission_name, target, operator, tags, h) ==
    /\ LET r == generate(active, history, files, now, h, mission_name, target, operator, tags)
       IN /\ active' = r.active
          /\ history' = r.history
          /\ files' = r.files
          /\ last' = Result("generate", r.stamp, None, TRUE, "none", None)
    /\ UNCHANGED <<now, todos, procs, req>>

handle_generate_stamp(mission_name, target, operator, tags, h) ==
    IF mission_name = "" \/ target = ""
    THEN /\ last' = Report("generate", NoStamp, None, FALSE, "validation", None)
         /\ UNCHANGED <<now, active, history, files, todos, procs, req>>
    ELSE /\ LET r == generate(active, history, files, now, h, mission_name, target,
                              operator, tags)
            IN /\ active' = r.active
               /\ history' = r.history
               /\ files' = r.files
               /\ last' = Result("generate", r.stamp, None, TRUE, "none", None)
         /\ UNCHANGED <<now, todos, procs, req>>

handle_get_stamp_info(stamp) ==
    /\ IF ~sanitize_stamp(stamp)
       THEN last' = Report("get_info", stamp, None, FALSE, "validation", None)
       ELSE LET r == get_info(active, stamp)
            IN last' = Report("get_info", stamp, None, r.success, r.error, r.data)
    /\ UNCHANGED <<now, active, history, files, todos, procs, req>>

handle_list_stamps ==
    /\ last' = Report("list_active", NoStamp, None, TRUE, "none", list_active(active).stamps)
    /\ UNCHANGED <<now, active, history, files, todos, procs, req>>

handle_associate_task(stamp, task_id) ==
    IF ~sanitize_stamp(stamp) \/ task_id = None
    THEN /\ last' = Report("associate_task", stamp, task_id, FALSE, "validation", None)
         /\ UNCHANGED <<now, active, history, files, todos, procs, req>>
    ELSE /\ LET r == associate_task(active, history, stamp, task_id, now)
            IN /\ active' = r.active
               /\ history' = r.history
               /\ last' = Returned("associate_task", stamp, task_id, r, None)
         /\ UNCHANGED <<now, files, todos, procs, req>>

handle_add_finding(stamp, vuln_type, severity) ==
    IF ~sanitize_stamp(stamp) \/ vuln_type = "" \/ severity \notin Severities
    THEN /\ last' = Report("add_finding", stamp, None, FALSE, "validation", None)
         /\ UNCHANGED <<now, active, history, files, todos, procs, req>>
    ELSE /\ LET r == add_finding(active, history, stamp, vuln_type, severity, now)
            IN /\ active' = r.active
               /\ history' = r.history
               /\ last' = Returned("add_finding", stamp, None, r, r.finding_id)
         /\ UNCHANGED <<now, files, todos, procs, req>>

handle_add_event(stamp, event_type) ==
    IF ~sanitize_stamp(stamp) \/ event_type = ""
    THEN /\ last' = Report("add_event", stamp, None, FALSE, "validation", None)
         /\ UNCHANGED <<now, active, history, files, todos, procs, req>>
    ELSE /\ LET r == add_event(active, stamp, event_type, now)
            IN /\ active' = r.active
               /\ last' = Returned("add_event", stamp, None, r, None)
         /\ UNCHANGED <<now, history, files, todos, procs, req>>

\* a handler that passes any status on to the Identity Store
handle_update_stamp_status_any(stamp, status) ==
    IF ~sanitize_stamp(stamp)
    THEN /\ last' = Report("update_status", stamp, None, FALSE, "validation", status)
         /\ UNCHANGED <<now, active, history, files, todos, procs, req>>
    ELSE /\ LET r == update_status(active, history, stamp, status, now)
            IN /\ active' = r.active
               /\ history' = r.history
               /\ last' = Returned("update_status", stamp, None, r, status)
         /\ UNCHANGED <<now, files, todos, procs, req>>

handle_update_stamp_status(stamp, status) ==
    IF ~sanitize_stamp(stamp) \/ status \notin StampStatuses
    THEN /\ last' = Report("update_status", stamp, None, FALSE, "validation", status)
         /\ UNCHANGED <<now, active, history, files, todos, procs, req>>
    ELSE /\ LET r == update_status(active, history, stamp, status, now)
            IN /\ active' = r.active
               /\ history' = r.history
               /\ last' = Returned("update_status", stamp, None, r, status)
         /\ UNCHANGED <<now, files, todos, procs, req>>

\* an archival that removes the workspace of the stamp with its record
handle_archive_stamp_cleans(stamp) ==
    IF ~sanitize_stamp(stamp)
    THEN /\ last' = Report("archive", stamp, None, FALSE, "validation", None)
         /\ UNCHANGED <<now, active, history, files, todos, procs, req>>
    ELSE /\ LET r == archive(active, history, stamp, now)
            IN /\ active' = r.active
               /\ history' = r.history
               /\ files' = IF r.success THEN cleanup_workspace(files, stamp) ELSE files
               /\ last' = Returned("archive", stamp, None, r, None)
         /\ UNCHANGED <<now, todos, procs, req>>

handle_archive_stamp(stamp) ==
    IF ~sanitize_stamp(stamp)
    THEN /\ last' = Report("archive", stamp, None, FALSE, "validation", None)
         /\ UNCHANGED <<now, active, history, files, todos, procs, req>>
    ELSE /\ LET r == archive(active, history, stamp, now)
            IN /\ active' = r.active
               /\ history' = r.history
               /\ last' = Returned("archive", stamp, None, r, None)
         /\ UNCHANGED <<now, files, todos, procs, req>>

handle_get_history(stamp, limit) ==
    /\ IF stamp # NoStamp /\ ~sanitize_stamp(stamp)
       THEN last' = Report("get_history", stamp, None, FALSE, "validation", None)
       ELSE last' = Report("get_history", stamp, None, TRUE, "none",
                           get_history(history, stamp, limit).history)
    /\ UNCHANGED <<now, active, history, files, todos, procs, req>>

(* ------------------- Task Ledger + Lifecycle Manager ------------------ *)
Pending(op, stamp, task_id) == Result(op, stamp, task_id, FALSE, "await", None)

\* a new request takes the lowest free slot
FreeSlot(k) == req[k].op = "idle" /\ \A j \in Slots : j < k => req[j].op # "idle"

InFlight(op) == Cardinality({k \in Slots : req[k].op = op})

Matches(task, stamp, task_id) ==
    /\ stamp = NoStamp \/ task.stamp = stamp
    /\ task_id = None \/ task.task_id = task_id

filtered_tasks(T, stamp, task_id) == SelectSeq(T, LAMBDA task : Matches(task, stamp, task_id))

\* the next task after position i that the status loop probes; 0 when there is none
NextProbe(T, i, stamp, task_id) ==
    LET S == {j \in (i + 1)..Len(T) : Matches(T[j], stamp, task_id) /\ T[j].status = "RUNNING"}
    IN IF S = {} THEN 0 ELSE CHOOSE j \in S : \A x \in S : j <= x

\* the first task with this task id and stamp; 0 when there is none
FindTask(T, stamp, task_id) ==
    LET S == {j \in 1..Len(T) : T[j].task_id = task_id /\ T[j].stamp = stamp}
    IN IF S = {} THEN 0 ELSE CHOOSE j \in S : \A x \in S : j <= x

_generate_task_id(t) == t

\* a cancellation that accepts a task in any state
cancellable_always(task) == TRUE

\* cancel_task goes on only for a task whose status is RUNNING
cancellable(task) == task.status = "RUNNING"

task_record(task_id, stamp, pid, script_name, t, proc) ==
    [task_id |-> task_id, stamp |-> stamp, pid |-> pid, script_name |-> script_name,
     status |-> "RUNNING", start_time |-> t, end_time |-> None, proc |-> proc]

\* a transition that sets the status and no end time
mark_status_only(T, i, status, t) == [T EXCEPT ![i].status = status]

\* task["status"] = status; task["end_time"] = datetime.now().isoformat()
mark(T, i, status, t) == [T EXCEPT ![i].status = status, ![i].end_time = t]

\* deploy_and_run up to its await: validate, save the script, pick the task id
handle_deploy_and_run(k, stamp, script_name, script_content) ==
    /\ FreeSlot(k)
    /\ IF ~sanitize_stamp(stamp) \/ ~sanitize_script_name(script_name)
          \/ is_blank(script_content)
       THEN /\ last' = Report("deploy_and_run", stamp, None, FALSE, "validation", None)
            /\ UNCHANGED <<files, req>>
       ELSE IF ~workspace_exists(files, stamp)
       THEN /\ last' = Report("deploy_and_run", stamp, None, FALSE, "not_found", None)
            /\ UNCHANGED <<files, req>>
       ELSE /\ files' = save_script(files, stamp, script_name, script_content)
            /\ req' = [req EXCEPT ![k] = [op |-> "deploy", stamp |-> stamp,
                                          script_name |-> script_name,
                                          task_id |-> _generate_task_id(now)]]
            /\ last' = Pending("deploy_and_run", stamp, _generate_task_id(now))
    /\ UNCHANGED <<now, active, history, todos, procs>>

\* a failure path that rolls the saved script back
deploy_spawn_failed_rollback(k) ==
    /\ req[k].op = "deploy"
    /\ req' = [req EXCEPT ![k] = Idle]
    /\ files' = IF req[k].stamp \in DOMAIN files
                THEN [files EXCEPT ![req[k].stamp] = Drop(@, req[k].script_name)]
                ELSE files
    /\ last' = Result("deploy_and_run", req[k].stamp, None, FALSE, "execution", None)
    /\ UNCHANGED <<now, active, history, todos, procs>>

\* run_script_background does not start the script
deploy_spawn_failed(k) ==
    /\ req[k].op = "deploy"
    /\ req' = [req EXCEPT ![k] = Idle]
    /\ last' = Result("deploy_and_run", req[k].stamp, None, FALSE, "execution", None)
    /\ UNCHANGED <<now, active, history, files, todos, procs>>

\* run_script_background returns a pid: the shell has opened the log (> log_file),
\* the task is recorded and associated
deploy_spawned(k, pid) ==
    /\ req[k].op = "deploy"
    /\ interpreter_known(req[k].script_name)
    /\ pid \notin LivePids(procs)
    /\ LET r == req[k]
           a == associate_task(active, history, r.stamp, r.task_id, now)
       IN /\ procs' = Append(procs, [pid |-> pid, alive |-> TRUE])
          /\ files' = IF r.stamp \in DOMAIN files
                      THEN [files EXCEPT ![r.stamp] = Put(@, LogName(r.task_id), << >>)]
                      ELSE files
          /\ todos' = Append(todos, task_record(r.task_id, r.stamp, pid, r.script_name,
                                                now, Len(procs) + 1))
          /\ active' = a.active
          /\ history' = a.history
          /\ last' = Result("deploy_and_run", r.stamp, r.task_id, TRUE, "none", pid)
    /\ req' = [req EXCEPT ![k] = Idle]
    /\ UNCHANGED now

\* the outcome of a handler that raises an exception instead of returning
Raised(op, stamp, task_id) == Result(op, stamp, task_id, FALSE, "raised", None)

\* a router that lets the exception of the handler through
route_uncaught(outcome) == outcome

\* ToolRouter.route: what the handler returns, or for an exception of the
\* handler the failure result that carries its message
route(outcome) ==
    IF outcome.error = "raised" THEN [outcome EXCEPT !.error = "execution"] ELSE outcome

\* run_script_background returned a pid and the write of the ledger raises
\* (OSError of todo_file.write_text): the script runs, nothing is recorded
deploy_save_failed(k, pid) ==
    /\ req[k].op = "deploy"
    /\ interpreter_known(req[k].script_name)
    /\ pid \notin LivePids(procs)
    /\ procs' = Append(procs, [pid |-> pid, alive |-> TRUE])
    /\ files' = IF req[k].stamp \in DOMAIN files
                THEN [files EXCEPT ![req[k].stamp] = Put(@, LogName(req[k].task_id), << >>)]
                ELSE files
    /\ last' = route(Raised("deploy_and_run", req[k].stamp, req[k].task_id))
    /\ req' = [req EXCEPT ![k] = Idle]
    /\ UNCHANGED <<now, active, history, todos>>

\* handler(**args) with an argument the handler does not take: TypeError
\* before the handler runs
route_bad_arguments(op) ==
    /\ last' = route([Raised(op, NoStamp, None) EXCEPT !.quiet = TRUE])
    /\ UNCHANGED <<now, active, history, files, todos, procs, req>>

\* get_task_status up to its first await
handle_get_task_status(k, stamp, task_id) ==
    /\ FreeSlot(k)
    /\ IF stamp # NoStamp /\ ~sanitize_stamp(stamp)
       THEN /\ last' = Report("get_task_status", stamp, task_id, FALSE, "validation", None)
            /\ UNCHANGED req
       ELSE LET i == NextProbe(todos, 0, stamp, task_id)
            IN IF i = 0
               THEN /\ last' = Report("get_task_status", stamp, task_id, TRUE, "none",
                                      filtered_tasks(todos, stamp, task_id))
                    /\ UNCHANGED req
               ELSE /\ req' = [req EXCEPT ![k] = [op |-> "status", stamp |-> stamp,
                                                  task_id |-> task_id, snap |-> todos,
                                                  i |-> i, updated |-> FALSE,
                                                  exited |-> Exited(procs)]]
                    /\ last' = Pending("get_task_status", stamp, task_id)
    /\ UNCHANGED <<now, active, history, files, todos, procs>>

\* check_pid_running returns for the task at position i; the loop goes on to the
\* next RUNNING task, or saves and returns
status_probed(k, is_running) ==
    /\ req[k].op = "status"
    /\ LET r == req[k]
           snap == IF is_running THEN r.snap ELSE mark(r.snap, r.i, "COMPLETED", now)
           updated == r.updated \/ ~is_running
           j == NextProbe(snap, r.i, r.stamp, r.task_id)
       IN /\ is_running \in check_pid_running(procs, r.snap[r.i].pid)
          /\ IF j # 0
             THEN /\ req' = [req EXCEPT ![k] = [r EXCEPT !.snap = snap, !.i = j,
                                                         !.updated = updated]]
                  /\ last' = Pending("get_task_status", r.stamp, r.task_id)
                  /\ UNCHANGED todos
             ELSE /\ req' = [req EXCEPT ![k] = Idle]
                  /\ todos' = IF updated THEN snap ELSE todos
                  /\ last' = Result("get_task_status", r.stamp, r.task_id, TRUE, "none",
                                    filtered_tasks(snap, r.stamp, r.task_id))
    /\ UNCHANGED <<now, active, history, files, procs>>

\* "(日志为空或不存在)" (the characters outside ASCII by their code points)
EmptyLogNote ==
    <<"(", "U+65E5", "U+5FD7", "U+4E3A", "U+7A7A", "U+6216", "U+4E0D", "U+5B58", "U+5728", ")">>

\* what get_task_result returns for the task: the log is read with
\* read_file(stamp, f"{task_id}.log", max_lines=tail_lines)
task_result(F, task, tail_lines) ==
    LET log_content == read_file(F, task.stamp, LogName(task.task_id), tail_lines)
    IN [task_id |-> task.task_id, status |-> task.status,
        log |-> IF ~log_content.found \/ log_content.text = << >>
                THEN EmptyLogNote ELSE log_content.text,
        start_time |-> task.start_time, end_time |-> task.end_time]

\* get_task_result up to its await
handle_get_task_result(k, stamp, task_id, tail_lines) ==
    /\ FreeSlot(k)
    /\ IF ~sanitize_stamp(stamp)
       THEN /\ last' = Report("get_task_result", stamp, task_id, FALSE, "validation", None)
            /\ UNCHANGED req
       ELSE LET i == FindTask(todos, stamp, task_id)
            IN IF i = 0
               THEN /\ last' = Report("get_task_result", stamp, task_id, FALSE,
                                      "not_found", None)
                    /\ UNCHANGED req
               ELSE IF todos[i].status # "RUNNING"
               THEN /\ last' = Report("get_task_result", stamp, task_id, TRUE, "none",
                                      task_result(files, todos[i], tail_lines))
                    /\ UNCHANGED req
               ELSE /\ req' = [req EXCEPT ![k] = [op |-> "result", stamp |-> stamp,
                                                  task_id |-> task_id, snap |-> todos,
                                                  i |-> i, tail_lines |-> tail_lines]]
                    /\ last' = Pending("get_task_result", stamp, task_id)
    /\ UNCHANGED <<now, active, history, files, todos, procs>>

result_probed(k, is_running) ==
    /\ req[k].op = "result"
    /\ LET r == req[k]
           snap == IF is_running THEN r.snap ELSE mark(r.snap, r.i, "COMPLETED", now)
       IN /\ is_running \in check_pid_running(procs, r.snap[r.i].pid)
          /\ todos' = IF is_running THEN todos ELSE snap
          /\ last' = Result("get_task_result", r.stamp, r.task_id, TRUE, "none",
                            task_result(files, snap[r.i], r.tail_lines))
    /\ req' = [req EXCEPT ![k] = Idle]
    /\ UNCHANGED <<now, active, history, files, procs>>

\* handle_read_workspace_file
handle_read_workspace_file(stamp, filename, max_lines) ==
    /\ IF ~sanitize_stamp(stamp)
       THEN last' = Report("read_file", stamp, None, FALSE, "validation", None)
       ELSE LET content == read_file(files, stamp, filename, max_lines)
            IN IF ~content.found
               THEN last' = Report("read_file", stamp, None, FALSE, "not_found", None)
               ELSE last' = Report("read_file", stamp, None, TRUE, "none", content.text)
    /\ UNCHANGED <<now, active, history, files, todos, procs, req>>

\* cancel_task up to its await on the kill command
\* a cancellation that looks at the process first: a task whose process has
\* exited is recorded COMPLETED and the cancellation is refused
handle_cancel_task_probing(k, stamp, task_id) ==
    /\ FreeSlot(k)
    /\ LET i == IF sanitize_stamp(stamp) THEN FindTask(todos, stamp, task_id) ELSE 0
       IN IF i # 0 /\ cancellable(todos[i]) /\ ~procs[todos[i].proc].alive
          THEN /\ todos' = mark(todos, i, "COMPLETED", now)
               /\ last' = Result("cancel_task", stamp, task_id, FALSE, "invalid_state", None)
               /\ UNCHANGED req
          ELSE /\ IF ~sanitize_stamp(stamp)
                  THEN /\ last' = Report("cancel_task", stamp, task_id, FALSE,
                                         "validation", None)
                       /\ UNCHANGED req
                  ELSE IF i = 0
                  THEN /\ last' = Report("cancel_task", stamp, task_id, FALSE,
                                         "not_found", None)
                       /\ UNCHANGED req
                  ELSE IF ~cancellable(todos[i])
                  THEN /\ last' = Report("cancel_task", stamp, task_id, FALSE,
                                         "invalid_state", None)
                       /\ UNCHANGED req
                  ELSE /\ req' = [req EXCEPT ![k] = [op |-> "cancel", pc |-> "kill",
                                                     stamp |-> stamp, task_id |-> task_id,
                                                     snap |-> todos, i |-> i]]
                       /\ last' = Pending("cancel_task", stamp, task_id)
               /\ UNCHANGED todos
    /\ UNCHANGED <<now, active, history, files, procs>>

handle_cancel_task(k, stamp, task_id) ==
    /\ FreeSlot(k)
    /\ IF ~sanitize_stamp(stamp)
       THEN /\ last' = Report("cancel_task", stamp, task_id, FALSE, "validation", None)
            /\ UNCHANGED req
       ELSE LET i == FindTask(todos, stamp, task_id)
            IN IF i = 0
               THEN /\ last' = Report("cancel_task", stamp, task_id, FALSE, "not_found", None)
                    /\ UNCHANGED req
               ELSE IF ~cancellable(todos[i])
               THEN /\ last' = Report("cancel_task", stamp, task_id, FALSE,
                                      "invalid_state", None)
                    /\ UNCHANGED req
               ELSE /\ req' = [req EXCEPT ![k] = [op |-> "cancel", pc |-> "kill",
                                                  stamp |-> stamp, task_id |-> task_id,
                                                  snap |-> todos, i |-> i]]
                    /\ last' = Pending("cancel_task", stamp, task_id)
    /\ UNCHANGED <<now, active, history, files, todos, procs>>

\* the shell runs kill -9 <pid>
cancel_kill(k) ==
    /\ req[k].op = "cancel" /\ req[k].pc = "kill"
    /\ procs' = kill(procs, req[k].snap[req[k].i].pid)
    /\ req' = [req EXCEPT ![k].pc = "save"]
    /\ last' = Pending("cancel_task", req[k].stamp, req[k].task_id)
    /\ UNCHANGED <<now, active, history, files, todos>>

\* process.communicate() returns: mark the task CANCELLED and save the ledger
cancel_saved(k) ==
    /\ req[k].op = "cancel" /\ req[k].pc = "save"
    /\ todos' = mark(req[k].snap, req[k].i, "CANCELLED", now)
    /\ req' = [req EXCEPT ![k] = Idle]
    /\ last' = Result("cancel_task", req[k].stamp, req[k].task_id, TRUE, "none", None)
    /\ UNCHANGED <<now, active, history, files, procs>>

\* an exit that is pushed into the ledger: the tasks of the process are marked
proc_exit_pushed(p) ==
    /\ p \in 1..Len(procs)
    /\ procs[p].alive
    /\ procs' = [procs EXCEPT ![p].alive = FALSE]
    /\ todos' = [i \in 1..Len(todos) |->
                    IF todos[i].proc = p /\ todos[i].status = "RUNNING"
                    THEN [todos[i] EXCEPT !.status = "COMPLETED", !.end_time = now]
                    ELSE todos[i]]
    /\ last' = Result("exit", NoStamp, None, TRUE, "none", p)
    /\ UNCHANGED <<now, active, history, files, req>>

\* a deployed script terminates by itself
proc_exit(p) ==
    /\ p \in 1..Len(procs)
    /\ procs[p].alive
    /\ procs' = [procs EXCEPT ![p].alive = FALSE]
    /\ last' = Result("exit", NoStamp, None, TRUE, "none", p)
    /\ UNCHANGED <<now, active, history, files, todos, req>>

\* a deployed script writes a line to its standard output, which the shell
\* has redirected to the log of its task; the line tells how many came before
proc_write(p) ==
    /\ p \in 1..Len(procs)
    /\ procs[p].alive
    /\ \E i \in 1..Len(todos) :
           /\ todos[i].proc = p
           /\ todos[i].stamp \in DOMAIN files
           /\ LogName(todos[i].task_id) \in DOMAIN files[todos[i].stamp]
           /\ LET log == files[todos[i].stamp][LogName(todos[i].task_id)]
              IN files' = [files EXCEPT ![todos[i].stamp][LogName(todos[i].task_id)] =
                               log \o str(Len(splitlines(log))) \o <<"\n">>]
    /\ last' = Result("write", NoStamp, None, TRUE, "none", p)
    /\ UNCHANGED <<now, active, history, todos, procs, req>>

\* run_command up to its await: the shell of the command is started with the
\* pid the operating system hands out; timeout seconds are allowed
run_command(k, pid, timeout) ==
    /\ FreeSlot(k)
    /\ pid \notin LivePids(procs)
    /\ procs' = Append(procs, [pid |-> pid, alive |-> TRUE])
    /\ req' = [req EXCEPT ![k] = [op |-> "command", proc |-> Len(procs) + 1,
                                  deadline |-> now + timeout]]
    /\ last' = Pending("run_command", NoStamp, None)
    /\ UNCHANGED <<now, active, history, files, todos>>

\* process.communicate() returns: the command has ended with return code 0
\* (zero) or another one
run_command_returned(k, zero) ==
    /\ req[k].op = "command"
    /\ ~procs[req[k].proc].alive
    /\ last' = Result("run_command", NoStamp, None, zero,
                      IF zero THEN "none" ELSE "execution", req[k].proc)
    /\ req' = [req EXCEPT ![k] = Idle]
    /\ UNCHANGED <<now, active, history, files, todos, procs>>

\* asyncio.wait_for gives up at the deadline: communicate() is cancelled and
\* the timeout failure returned; nothing is done to the process
run_command_timeout(k) ==
    /\ req[k].op = "command"
    /\ now >= req[k].deadline
    /\ last' = Result("run_command", NoStamp, None, FALSE, "timeout", req[k].proc)
    /\ req' = [req EXCEPT ![k] = Idle]
    /\ UNCHANGED <<now, active, history, files, todos, procs>>

\* WorkspaceManager.cleanup_workspace
cleanup(stamp) ==
    /\ stamp \in DOMAIN files
    /\ files' = cleanup_workspace(files, stamp)
    /\ last' = Result("cleanup", stamp, None, TRUE, "none", None)
    /\ UNCHANGED <<now, active, history, todos, procs, req>>

(* ------------------------------ Toolbox ------------------------------ *)
\* tool_logs.jsonl
ToolLog == <<"t", "o", "o", "l", "_", "l", "o", "g", "s", ".", "j", "s", "o", "n", "l">>

\* json.dumps(log_entry) + "\n"
LogEntry == <<"{", "}", "\n">>

\* ToolRunner._log_execution: the directory of the stamp is made if it is not
\* there, and the log line appended to tool_logs.jsonl in it
_log_execution(F, stamp) ==
    LET G == create_workspace(F, stamp)
        old == IF ToolLog \in DOMAIN G[stamp] THEN G[stamp][ToolLog] ELSE << >>
    IN [G EXCEPT ![stamp] = Put(@, ToolLog, old \o LogEntry)]

\* handle_run_tool: ran tells whether the tool ran to its end; the stamp is
\* used as it comes
handle_run_tool(stamp, ran) ==
    IF ran
    THEN /\ files' = _log_execution(files, stamp)
         /\ last' = Result("run_tool", stamp, None, TRUE, "none", None)
         /\ UNCHANGED <<now, active, history, todos, procs, req>>
    ELSE /\ last' = Report("run_tool", stamp, None, FALSE, "execution", None)
         /\ UNCHANGED <<now, active, history, files, todos, procs, req>>

(* --------------------------- specifications --------------------------- *)
\* the bounds of the model: room left in the history log, for one more event
\* under a stamp, and for one more spawned process
HistRoom == Len(history) < MaxHistory

EventRoom(stamp) == stamp \in DOMAIN active => Len(active[stamp].events) < MaxEvents

ProcRoom == Len(procs) + InFlight("deploy") < MaxProcs

\* the tool log of the stamp holds fewer than MaxToolRuns entries
ToolRoom(stamp) ==
    (stamp \in DOMAIN files /\ ToolLog \in DOMAIN files[stamp])
        => Len(files[stamp][ToolLog]) < MaxToolRuns * Len(LogEntry)

GenArgs == {<<"recon-1", "10.0.0.5", "shadow_commander", Absent>>,
            <<"", "10.0.0.5", "shadow_commander", Absent>>,
            <<"recon-1", "", "shadow_commander", Absent>>}
\* generate arguments with an operator and tags of the caller's
MintArgs == GenArgs \cup {<<"recon-1", "10.0.0.5", "op-2", Given(<<"web">>)>>,
                          <<"recon-2", "10.0.0.5", "shadow_commander", Given(<< >>)>>}
\* script names that sanitize_script_name has to turn down: a path separator,
\* "..", a character outside [A-Za-z0-9_.-], another extension, the empty name
BadNames == {<<".", ".", "/", "x", ".", "s", "h">>, <<"a", "/", "s", ".", "s", "h">>,
             <<"a", "\\", "s", ".", "s", "h">>, <<".", ".", "s", "h">>,
             <<"s", " ", ".", "s", "h">>, <<"s", ".", "s", "h", "\n">>,
             <<"s", ".", "r", "b">>, << >>}
DeployArgs == {<<ScanSh, <<"e">> >>, <<ScanSh, <<" ">> >>,
               <<<<".", ".", "/", "x", ".", "s", "h">>, <<"e">> >>}
\* deploy_and_run arguments with every kind of script name and content
ScriptArgs == {<<ScanSh, <<"e">> >>, <<ScanSh, <<" ">> >>, <<ScanSh, << >> >>}
                  \cup {<<n, <<"e">> >> : n \in BadNames}
\* the stamps the callers of the task specifications name: the two ids that the
\* hash 1 can give, and a malformed one
TaskStamps == {<<0, 1>>, <<MaxTime, 1>>, BadStamp}

\* A request that returned without changing anything (last.quiet) ends the run:
\* the program's state is the one before it, which is explored further from the
\* step that produced it.
Served == ~last.quiet

\* the Identity Store operations
IdentityStep ==
    \/ \E a \in GenArgs, h \in Hashes :
           Served /\ HistRoom /\ handle_generate_stamp(a[1], a[2], a[3], a[4], h)
    \/ \E s \in StampArgs : Served /\ handle_get_stamp_info(s)
    \/ Served /\ handle_list_stamps
    \/ \E s \in StampArgs, t \in TaskIds \cup {None} :
           Served /\ HistRoom /\ handle_associate_task(s, t)
    \/ \E s \in StampArgs, sv \in SeverityArgs :
           Served /\ HistRoom /\ handle_add_finding(s, "SQLi", sv)
    \/ \E s \in StampArgs, e \in EventTypes :
           Served /\ EventRoom(s) /\ handle_add_event(s, e)
    \/ \E s \in StampArgs, st \in StatusArgs :
           Served /\ HistRoom /\ handle_update_stamp_status(s, st)
    \/ \E s \in StampArgs : Served /\ HistRoom /\ handle_archive_stamp(s)
    \/ \E s \in StampArgs \cup {NoStamp}, n \in Limits :
           Served /\ handle_get_history(s, n)

\* a well-formed deploy_and_run, served to its end before the next request
DeployStep ==
    \/ \E s \in StampIds :
           Served /\ ProcRoom /\ handle_deploy_and_run(1, s, ScanSh, <<"e">>)
    \/ Served /\ deploy_spawn_failed(1)
    \/ \E p \in Pids : Served /\ HistRoom /\ deploy_spawned(1, p)

\* the stamps of the task specifications are minted with the hash 1
StampStep ==
    \/ \E a \in GenArgs : Served /\ HistRoom /\ handle_generate_stamp(a[1], a[2], a[3], a[4], 1)
    \/ \E s \in TaskStamps : Served /\ HistRoom /\ handle_archive_stamp(s)

\* the Lifecycle Manager operations entering through slot k, and their resumptions
TaskStep(k) ==
    \/ \E s \in TaskStamps, a \in DeployArgs :
           Served /\ ProcRoom /\ handle_deploy_and_run(k, s, a[1], a[2])
    \/ Served /\ deploy_spawn_failed(k)
    \/ \E p \in Pids : Served /\ HistRoom /\ deploy_spawned(k, p)
    \/ \E s \in TaskStamps \cup {NoStamp}, t \in TaskIds \cup {None} :
           Served /\ handle_get_task_status(k, s, t)
    \/ \E b \in BOOLEAN : Served /\ status_probed(k, b)
    \/ \E s \in TaskStamps, t \in TaskIds : Served /\ handle_get_task_result(k, s, t, 50)
    \/ \E b \in BOOLEAN : Served /\ result_probed(k, b)
    \/ \E s \in TaskStamps, t \in TaskIds : Served /\ handle_cancel_task(k, s, t)
    \/ Served /\ cancel_kill(k)
    \/ Served /\ cancel_saved(k)

\* the clock
ClockStep == Served /\ Tick

\* a deployed script terminates
ExitStep == \E p \in 1..MaxProcs : Served /\ proc_exit(p)

\* a workspace is cleaned up
CleanupStep == \E s \in StampIds : Served /\ cleanup(s)

\* Spec: the task operations served one at a time (a request runs to its end
\* before the next one enters), with the clock, the deployed scripts and the
\* workspace cleanup running alongside
Next ==
    \/ StampStep
    \/ TaskStep(1)
    \/ ClockStep
    \/ ExitStep
    \/ CleanupStep

Spec == Init /\ [][Next]_vars

\* SpecIdentity: the Identity Store operations and deploy_and_run, served one at
\* a time while the clock runs
NextIdentity ==
    \/ IdentityStep
    \/ DeployStep
    \/ ClockStep

SpecIdentity == Init /\ [][NextIdentity]_vars

\* SpecConcurrent: up to NumSlots task requests in flight at once, interleaved at
\* their awaits, within one second of the clock
NextConcurrent ==
    \/ StampStep
    \/ \E k \in Slots : TaskStep(k)
    \/ ExitStep

SpecConcurrent == Init /\ [][NextConcurrent]_vars

\* deploy_and_run with every kind of script name, served to its end
ScriptStep ==
    \/ \E s \in TaskStamps, a \in ScriptArgs :
           Served /\ ProcRoom /\ handle_deploy_and_run(1, s, a[1], a[2])
    \/ Served /\ deploy_spawn_failed(1)
    \/ \E p \in Pids : Served /\ HistRoom /\ deploy_spawned(1, p)

\* SpecScripts: deploy_and_run requests with well-formed and malformed script
\* names and contents, while stamps are minted and archived, the clock runs,
\* scripts terminate and workspaces are cleaned up
NextScripts ==
    \/ StampStep
    \/ ScriptStep
    \/ ClockStep
    \/ ExitStep
    \/ CleanupStep

SpecScripts == Init /\ [][NextScripts]_vars

\* a toolbox tool is run under a stamp
ToolStep ==
    \E s \in TaskStamps, ran \in BOOLEAN : Served /\ ToolRoom(s) /\ handle_run_tool(s, ran)

\* SpecTools: toolbox runs next to the minting and archiving of stamps,
\* well-formed deploy_and_run requests, the clock and the workspace cleanup
NextTools ==
    \/ StampStep
    \/ ToolStep
    \/ DeployStep
    \/ ClockStep
    \/ CleanupStep

SpecTools == Init /\ [][NextTools]_vars

\* the log of the task run by process p holds fewer than MaxLines lines
LogRoom(p) ==
    \A i \in 1..Len(todos) :
        (/\ todos[i].proc = p
         /\ todos[i].stamp \in DOMAIN files
         /\ LogName(todos[i].task_id) \in DOMAIN files[todos[i].stamp])
            => Len(splitlines(files[todos[i].stamp][LogName(todos[i].task_id)])) < MaxLines

\* scripts of one line and of three, more than MaxLines
ReadDeployArgs == {<<ScanSh, <<"e">> >>, <<ScanSh, <<"a", "\n", "b", "\n", "c">> >>}
\* ../<stamp>/s.sh
Sibling(stamp) == <<".", ".", "/">> \o stamp_text(stamp) \o <<"/">> \o ScanSh
\* the file names a reader passes: a script, a log, a file that is not there,
\* a script in the directory next to the workspace, an absolute path
ReadNames == {ScanSh, LogName(0), <<"x", ".", "s", "h">>, <<"/", "e", "t", "c">>}
                 \cup {Sibling(x) : x \in {0} \X Hashes}
\* max_lines and tail_lines
LineArgs == 0..MaxLines
ReadStamps == ({0} \X Hashes) \cup {BadStamp}

\* SpecRead: scripts are deployed into two workspaces and write their logs,
\* and the files and the task results are read
ReadStep ==
    \/ \E a \in GenArgs, h \in Hashes :
           Served /\ HistRoom /\ handle_generate_stamp(a[1], a[2], a[3], a[4], h)
    \/ \E x \in ReadStamps, a \in ReadDeployArgs :
           Served /\ ProcRoom /\ handle_deploy_and_run(1, x, a[1], a[2])
    \/ Served /\ deploy_spawn_failed(1)
    \/ \E p \in Pids : Served /\ HistRoom /\ deploy_spawned(1, p)
    \/ \E p \in 1..MaxProcs : Served /\ LogRoom(p) /\ proc_write(p)
    \/ \E x \in ReadStamps, f \in ReadNames, m \in LineArgs :
           Served /\ handle_read_workspace_file(x, f, m)
    \/ \E x \in ReadStamps, t \in TaskIds, n \in LineArgs :
           Served /\ handle_get_task_result(1, x, t, n)
    \/ \E b \in BOOLEAN : Served /\ result_probed(1, b)

NextRead ==
    \/ ReadStep
    \/ ExitStep

SpecRead == Init /\ [][NextRead]_vars

\* the names of the lifecycle and workspace operations the router exposes
Operations == {"deploy_and_run", "get_task_status", "get_task_result", "cancel_task",
               "read_file"}

\* a handler raises
FaultStep ==
    \/ \E p \in Pids : Served /\ deploy_save_failed(1, p)
    \/ \E op \in Operations : Served /\ FreeSlot(1) /\ route_bad_arguments(op)

\* SpecFaults: the task operations served one at a time, the reads of the
\* workspace files, and the handlers that raise
NextFaults ==
    \/ StampStep
    \/ TaskStep(1)
    \/ \E x \in TaskStamps, f \in {ScanSh, LogName(0)} :
           Served /\ FreeSlot(1) /\ handle_read_workspace_file(x, f, 50)
    \/ FaultStep
    \/ ExitStep

SpecFaults == Init /\ [][NextFaults]_vars

\* the timeouts a caller allows, in seconds
Timeouts == {1}

\* administrative commands run through slot 1
CommandStep ==
    \/ \E p \in Pids, t \in Timeouts : Served /\ ProcRoom /\ run_command(1, p, t)
    \/ \E z \in BOOLEAN : Served /\ run_command_returned(1, z)
    \/ Served /\ run_command_timeout(1)

\* SpecCommand: administrative commands next to the minting of stamps, the
\* deployment of scripts, the exit of processes and the clock
NextCommand ==
    \/ StampStep
    \/ DeployStep
    \/ CommandStep
    \/ ExitStep
    \/ ClockStep

SpecCommand == Init /\ [][NextCommand]_vars

\* deployments, status requests for one task id and cancellations entering
\* through slot k, and their resumptions
FilterStep(k) ==
    \/ Served /\ ProcRoom /\ handle_deploy_and_run(k, <<0, 1>>, ScanSh, <<"e">>)
    \/ \E p \in Pids : Served /\ HistRoom /\ deploy_spawned(k, p)
    \/ \E t \in TaskIds : Served /\ handle_get_task_status(k, NoStamp, t)
    \/ \E b \in BOOLEAN : Served /\ status_probed(k, b)
    \/ \E t \in TaskIds : Served /\ handle_cancel_task(k, <<0, 1>>, t)
    \/ Served /\ cancel_kill(k)
    \/ Served /\ cancel_saved(k)

\* SpecFilter: up to NumSlots requests in flight at once on the tasks of one
\* stamp, deployed at different seconds
NextFilter ==
    \/ Served /\ HistRoom /\ handle_generate_stamp("recon-1", "10.0.0.5", "shadow_commander",
                                                  Absent, 1)
    \/ \E k \in Slots : FilterStep(k)
    \/ ClockStep

SpecFilter == Init /\ [][NextFilter]_vars

\* the mutations of the stamp <<0, 1>> and the deployments for it, entering
\* while other deployments are suspended
SharedStep ==
    \/ Served /\ HistRoom /\ handle_generate_stamp("recon-1", "10.0.0.5", "shadow_commander",
                                                  Absent, 1)
    \/ \E t \in TaskIds : Served /\ HistRoom /\ handle_associate_task(<<0, 1>>, t)
    \/ Served /\ HistRoom /\ handle_add_finding(<<0, 1>>, "SQLi", "high")
    \/ Served /\ EventRoom(<<0, 1>>) /\ handle_add_event(<<0, 1>>, "note")
    \/ \E st \in {"paused", "completed"} :
           Served /\ HistRoom /\ handle_update_stamp_status(<<0, 1>>, st)
    \/ Served /\ HistRoom /\ handle_archive_stamp(<<0, 1>>)
    \/ \E k \in Slots :
           Served /\ ProcRoom /\ handle_deploy_and_run(k, <<0, 1>>, ScanSh, <<"e">>)
    \/ \E k \in Slots : Served /\ deploy_spawn_failed(k)
    \/ \E k \in Slots, p \in Pids : Served /\ HistRoom /\ deploy_spawned(k, p)

\* SpecShared: the requests that write the active collection, up to NumSlots
\* deployments in flight among them
NextShared ==
    \/ SharedStep
    \/ ExitStep
    \/ ClockStep

SpecShared == Init /\ [][NextShared]_vars

\* SpecMint: stamps minted with every kind of argument, looked up and
\* updated, the history read, and the clock
MintStep ==
    \/ \E a \in MintArgs, h \in Hashes :
           Served /\ HistRoom /\ handle_generate_stamp(a[1], a[2], a[3], a[4], h)
    \/ \E s \in StampArgs : Served /\ handle_get_stamp_info(s)
    \/ \E s \in StampArgs, st \in StatusArgs :
           Served /\ HistRoom /\ handle_update_stamp_status(s, st)

\* the limits a reader of the history passes, the one of no record among them
HistoryLimits == {0, 1, 2}

\* the history log is read
HistoryStep ==
    \E s \in StampArgs \cup {NoStamp}, n \in HistoryLimits : Served /\ handle_get_history(s, n)

NextMint ==
    \/ MintStep
    \/ HistoryStep
    \/ ClockStep

SpecMint == Init /\ [][NextMint]_vars

(* ------------------------------ properties ---------------------------- *)
\* a task record is identified across ledger states by the process it started
Positions(T, proc) == {j \in 1..Len(T) : T[j].proc = proc}

Terminal(status) == status \in {"COMPLETED", "CANCELLED"}

\* C1: once a task's persisted status is COMPLETED or CANCELLED, no step of any
\* interleaving of task requests changes the persisted status of that task
C1_TerminalNeverLeft ==
    [][\A i \in 1..Len(todos) :
           Terminal(todos[i].status) =>
               \A j \in Positions(todos', todos[i].proc) :
                   todos'[j].status = todos[i].status]_vars

\* C2: no ledger update is lost: every task record in the persisted ledger is
\* still in the ledger after every step of any interleaving of task requests
C2_NoLostUpdate ==
    [][\A i \in 1..Len(todos) : Positions(todos', todos[i].proc) # {}]_vars

\* C3: any two distinct task records of the ledger have different task ids
C3_TaskIdUnique ==
    \A i, j \in 1..Len(todos) : i # j => todos[i].task_id # todos[j].task_id

\* C4: generate never returns the id of a stamp generated before: the history
\* log holds at most one stamp_created record per stamp id
C4_StampIdUnique ==
    \A i, j \in 1..Len(history) :
        (i < j /\ history[i].event = "stamp_created"
               /\ history[j].event = "stamp_created")
            => history[i].stamp # history[j].stamp

\* C5: a well-formed deploy_and_run on a stamp whose workspace does not exist
\* returns not-found and changes neither the ledger, the workspaces and their
\* files, the processes, the stamps nor the history, and leaves nothing pending
C5_DeployNoWorkspace ==
    [][\A k \in Slots, s \in StampIds, a \in DeployArgs :
           (/\ last'.op = "deploy_and_run"
            /\ last'.stamp = s
            /\ s \notin DOMAIN files
            /\ handle_deploy_and_run(k, s, a[1], a[2])
            /\ sanitize_script_name(a[1])
            /\ ~is_blank(a[2]))
               => /\ ~last'.success
                  /\ last'.error = "not_found"
                  /\ UNCHANGED <<todos, files, procs, active, history, req>>]_vars

C5_Witness ==
    /\ last.op = "deploy_and_run"
    /\ last.error = "not_found"
    /\ last.stamp \in DOMAIN active
    /\ todos # << >>

\* C6: cancel_task on a task whose ledger status is COMPLETED or CANCELLED (the
\* task is the first ledger record with the task id and stamp of the call, as
\* cancel_task looks it up) returns invalid-state, sends no kill and leaves the
\* ledger unchanged
C6_CancelNotRunning ==
    [][\A k \in Slots, s \in StampIds, t \in TaskIds :
           (/\ last'.op = "cancel_task"
            /\ FindTask(todos, s, t) # 0
            /\ Terminal(todos[FindTask(todos, s, t)].status)
            /\ handle_cancel_task(k, s, t))
               => /\ ~last'.success
                  /\ last'.error = "invalid_state"
                  /\ UNCHANGED <<todos, procs, req>>]_vars

C6_Witness ==
    /\ last.op = "cancel_task"
    /\ last.error = "invalid_state"
    /\ \E i \in 1..Len(todos) : todos[i].status = "COMPLETED" /\ procs[todos[i].proc].alive
    /\ \E i \in 1..Len(todos) : todos[i].status = "CANCELLED"

Count(seq, x) == Cardinality({i \in 1..Len(seq) : seq[i] = x})

\* C7: no stamp's task_ids holds a task id twice, and after an associate_task
\* that succeeded (called directly or by deploy_and_run) the stamp's task_ids
\* holds the task id exactly once
C7_AssociateIdempotent ==
    /\ \A s \in DOMAIN active, t \in TaskIds : Count(active[s].task_ids, t) <= 1
    /\ (last.op \in {"associate_task", "deploy_and_run"} /\ last.success
            /\ last.stamp \in DOMAIN active)
           => Count(active[last.stamp].task_ids, last.task_id) = 1

\* the same task id was associated with the same active stamp twice
C7_Witness ==
    /\ last.op = "associate_task" /\ last.success
    /\ \E i, j \in 1..Len(history) :
           /\ i < j
           /\ history[i].event = "task_associated"
           /\ history[j].event = "task_associated"
           /\ history[i].stamp = last.stamp /\ history[j].stamp = last.stamp
           /\ history[i].task_id = last.task_id /\ history[j].task_id = last.task_id

\* C8: after archive succeeds the stamp is not in list_active and get_history of
\* the stamp holds a stamp_archived record with archived_at set; archive on a
\* stamp that is not active returns not-found and changes neither the active
\* collection nor the history log
C8_Archive ==
    [][/\ (last'.op = "archive" /\ last'.success)
              => /\ last'.stamp \in DOMAIN active
                 /\ last'.stamp \notin list_active(active').stamps
                 /\ \A n \in Limits :
                        \E i \in 1..Len(get_history(history', last'.stamp, n).history) :
                            LET r == get_history(history', last'.stamp, n).history[i]
                            IN r.event = "stamp_archived" /\ r.stamp = last'.stamp
                               /\ r.data.archived_at # None
       /\ (last'.op = "archive" /\ last'.stamp \in StampIds
               /\ last'.stamp \notin DOMAIN active)
              => /\ ~last'.success
                 /\ last'.error = "not_found"
                 /\ UNCHANGED <<active, history>>]_vars

\* a stamp with an associated task was archived
C8_Witness ==
    /\ last.op = "archive" /\ last.success
    /\ history[Len(history)].data.task_ids # << >>
    /\ last.stamp \notin DOMAIN active

\* C9: once a stamp is archived its id is never in the active collection again,
\* no history record follows its stamp_archived record, and get_info,
\* associate_task, add_finding, add_event, update_status and archive on it
\* return not-found
C9_ArchivalTerminal ==
    \A i \in 1..Len(history) :
        history[i].event = "stamp_archived" =>
            /\ history[i].stamp \notin DOMAIN active
            /\ \A j \in (i + 1)..Len(history) : history[j].stamp # history[i].stamp
            /\ (last.stamp = history[i].stamp
                    /\ last.op \in {"get_info", "associate_task", "add_finding",
                                    "add_event", "update_status"})
                   => last.error = "not_found"
            /\ (last.stamp = history[i].stamp /\ last.op = "archive"
                    /\ i < Len(history))
                   => last.error = "not_found"

\* C10: after a deploy_and_run that succeeded the ledger holds a RUNNING task
\* with the returned task id, the given stamp and the spawned pid, and the task
\* id is in the task_ids of that stamp in the Identity Store
C10_DeployRecorded ==
    (last.op = "deploy_and_run" /\ last.success) =>
        /\ \E i \in 1..Len(todos) :
               /\ todos[i].task_id = last.task_id
               /\ todos[i].stamp = last.stamp
               /\ todos[i].pid = last.data
               /\ todos[i].status = "RUNNING"
        /\ last.stamp \in DOMAIN active
        /\ Contains(active[last.stamp].task_ids, last.task_id)

\* what a get_task_status that returns in this step owes its caller: tasks is
\* the returned list, exited the processes that had terminated when it was called
Reconciled(tasks, exited) ==
    \A i \in 1..Len(tasks) :
        /\ tasks[i].proc \in exited =>
               /\ Terminal(tasks[i].status)
               /\ tasks[i].end_time # None
               /\ \E j \in Positions(todos', tasks[i].proc) :
                      /\ todos'[j].status = tasks[i].status
                      /\ todos'[j].end_time = tasks[i].end_time
        /\ procs'[tasks[i].proc].alive => tasks[i].status = "RUNNING"

\* C11: a get_task_status called after the process of a task has exited returns
\* the task as COMPLETED (or CANCELLED, if it was cancelled) with end_time set
\* and has that in the ledger when it returns; a task whose process is alive is
\* returned as RUNNING
C11_StatusReconciled ==
    [][/\ (last'.op = "get_task_status" /\ last'.success /\ UNCHANGED req)
              => Reconciled(last'.data, Exited(procs))
       /\ \A k \in Slots :
              (req[k].op = "status" /\ req'[k].op = "idle")
                  => Reconciled(last'.data, req[k].exited)]_vars

\* C12: when the spawn fails after the script was saved, deploy_and_run returns
\* a failure and leaves the workspaces and their files as they are (the saved
\* script is not rolled back), the ledger gets no task record and no task id is
\* associated with a stamp
C12_SpawnFailure ==
    [][\A k \in Slots :
           (/\ req[k].op = "deploy"
            /\ req'[k].op = "idle"
            /\ ~last'.success)
               => /\ last'.op = "deploy_and_run"
                  /\ last'.error = "execution"
                  /\ UNCHANGED <<todos, active, history, files>>]_vars

C12_Witness ==
    /\ last.op = "deploy_and_run"
    /\ last.error = "execution"
    /\ last.stamp \in DOMAIN active
    /\ last.stamp \in DOMAIN files
    /\ DOMAIN files[last.stamp] = {ScanSh}
    /\ active[last.stamp].task_ids = << >>
    /\ todos = << >>

\* a script name as C13 describes the ones to refuse
RefusedName(name) ==
    \/ HasSub(name, <<"/">>) \/ HasSub(name, <<"\\">>)
    \/ HasSub(name, <<".", ".">>)
    \/ \E i \in 1..Len(name) : name[i] \notin NameChars
    \/ ~(EndsWith(name, <<".", "p", "y">>) \/ EndsWith(name, <<".", "s", "h">>))

\* C13: deploy_and_run with a script name that holds a path separator, "..", a
\* character outside [A-Za-z0-9_.-] or no .py/.sh ending, or with blank
\* content, returns a validation error, writes no file, spawns no process and
\* adds no task record; no workspace ever holds a file whose name leads out of it
C13_ScriptNameValidated ==
    [][/\ \A k \in Slots, s \in StampArgs, a \in ScriptArgs :
              (/\ last'.op = "deploy_and_run"
               /\ last'.stamp = s
               /\ RefusedName(a[1]) \/ is_blank(a[2])
               /\ handle_deploy_and_run(k, s, a[1], a[2]))
                  => /\ ~last'.success
                     /\ last'.error = "validation"
                     /\ UNCHANGED <<files, procs, todos, req, active, history>>
       /\ files' # files =>
              \A s \in DOMAIN files' : \A f \in DOMAIN files'[s] :
                  ~HasSub(f, <<"/">>) /\ ~HasSub(f, <<"\\">>) /\ ~HasSub(f, <<".", ".">>)]_vars

\* a refused deploy_and_run on a stamp that already runs a task from its workspace
C13_Witness ==
    /\ last.op = "deploy_and_run" /\ last.error = "validation"
    /\ last.stamp \in DOMAIN files
    /\ ScanSh \in DOMAIN files[last.stamp]
    /\ \E i \in 1..Len(todos) : todos[i].stamp = last.stamp

\* the stamp ids that generate has returned so far
Minted == {history[i].stamp : i \in {j \in 1..Len(history) : history[j].event = "stamp_created"}}

\* C14: every task record of the ledger carries a stamp id that generate returned
C14_NoImplicitIdentity ==
    \A i \in 1..Len(todos) : todos[i].stamp \in Minted

\* C15: generate with an empty mission name or an empty target fails with a
\* validation error and leaves the active stamps, the history and the
\* workspaces as they were
C15_GenerateValidated ==
    [][\A a \in GenArgs, h \in Hashes :
           (/\ last'.op = "generate"
            /\ a[1] = "" \/ a[2] = ""
            /\ handle_generate_stamp(a[1], a[2], a[3], a[4], h))
               => /\ ~last'.success
                  /\ last'.error = "validation"
                  /\ UNCHANGED <<active, history, files>>]_vars

\* a refused generate on a server that holds a stamp already
C15_Witness ==
    /\ last.op = "generate"
    /\ last.error = "validation"
    /\ DOMAIN active # {}
    /\ Len(history) > 0

\* the pattern SHADOW-\d{8}-\d{6}-[A-F0-9]{4}
StampPattern(text) ==
    /\ Len(text) = 27
    /\ SubSeq(text, 1, 7) = <<"S", "H", "A", "D", "O", "W", "-">>
    /\ \A i \in 8..15 : text[i] \in Digits
    /\ text[16] = "-"
    /\ \A i \in 17..22 : text[i] \in Digits
    /\ text[23] = "-"
    /\ \A i \in 24..27 : text[i] \in Digits \cup {"A", "B", "C", "D", "E", "F"}

\* C16: a generate with a mission name and a target returns an id of the form
\* SHADOW-<8 digits>-<6 digits>-<4 upper-case hex characters>, and get_info on
\* that id right after it succeeds with the supplied mission name, target,
\* operator and tags, the status active and no task id, finding or event
C16_GenerateThenGetInfo ==
    [][\A a \in MintArgs, h \in Hashes :
           (/\ last'.op = "generate"
            /\ a[1] # "" /\ a[2] # ""
            /\ handle_generate_stamp(a[1], a[2], a[3], a[4], h))
               => /\ last'.success
                  /\ StampPattern(stamp_text(last'.stamp))
                  /\ sanitize_stamp(last'.stamp)
                  /\ LET r == get_info(active', last'.stamp)
                     IN /\ r.success
                        /\ r.data.mission_name = a[1]
                        /\ r.data.target = a[2]
                        /\ r.data.operator = a[3]
                        /\ r.data.tags = a[4].list
                        /\ r.data.status = "active"
                        /\ r.data.task_ids = << >>
                        /\ r.data.findings = << >>
                        /\ r.data.events = << >>]_vars

\* a stamp minted with an operator and tags of the caller's, at a second and
\* with a hash that are not zero
C16_Witness ==
    /\ last.op = "generate"
    /\ last.success
    /\ last.stamp \in DOMAIN active
    /\ active[last.stamp].operator = "op-2"
    /\ active[last.stamp].tags = <<"web">>
    /\ stamp_text(last.stamp) =
           <<"S", "H", "A", "D", "O", "W", "-", "2", "0", "2", "5", "0", "1", "0", "1", "-",
             "0", "0", "0", "0", "0", "1", "-", "0", "0", "0", "2">>

\* the text begins with the prefix
StartsWith(text, prefix) ==
    Len(text) >= Len(prefix) /\ SubSeq(text, 1, Len(prefix)) = prefix

\* C17: read_file on a file of n lines returns, when n > max_lines, the first
\* max_lines lines followed by a truncation marker that states n, and when
\* n <= max_lines all the n lines and no marker; a missing file or workspace
\* yields not-found
C17_ReadTruncates ==
    [][\A x \in {0} \X Hashes, f \in {ScanSh, LogName(0), <<"x", ".", "s", "h">>},
          m \in LineArgs :
           (/\ last'.op = "read_file"
            /\ last'.stamp = x
            /\ handle_read_workspace_file(x, f, m))
               => IF x \in DOMAIN files /\ f \in DOMAIN files[x]
                  THEN LET lines == splitlines(files[x][f])
                           n == Len(lines)
                           head == join(SubSeq(lines, 1, m))
                       IN /\ last'.success
                          /\ n > m =>
                                 /\ StartsWith(last'.data, head)
                                 /\ LET rest == SubSeq(last'.data, Len(head) + 1,
                                                       Len(last'.data))
                                    IN /\ StartsWith(rest, <<"\n", ".", ".", ".", " ", "[">>)
                                       /\ HasSub(rest, <<" ">> \o str(n) \o <<" ">>)
                                       /\ Len(splitlines(rest)) = 2
                          /\ n <= m => last'.data = join(lines)
                  ELSE ~last'.success /\ last'.error = "not_found"]_vars

\* a script of three lines read with max_lines = 2
C17_Witness ==
    /\ last.op = "read_file"
    /\ last.success
    /\ StartsWith(last.data, <<"a", "\n", "b", "\n", ".", ".", ".">>)
    /\ HasSub(last.data, <<" ", "3", " ">>)

\* C18: get_history returns, in the order of the log, exactly the last limit
\* records of the stamp (of all the stamps when none is given), and never
\* more than limit records
C18_HistoryLastLimit ==
    [][\A s \in StampArgs \cup {NoStamp}, n \in HistoryLimits :
           (/\ last'.op = "get_history"
            /\ last'.stamp = s
            /\ last'.success
            /\ handle_get_history(s, n))
               => LET of_stamp == SelectSeq(history, LAMBDA r : s = NoStamp \/ r.stamp = s)
                      k == IF n < Len(of_stamp) THEN n ELSE Len(of_stamp)
                  IN /\ Len(last'.data) <= n
                     /\ last'.data = SubSeq(of_stamp, Len(of_stamp) - k + 1, Len(of_stamp))]_vars

\* the lines of the log of the task as get_task_result finds them
LogLines(stamp, task_id) ==
    IF stamp \in DOMAIN files /\ LogName(task_id) \in DOMAIN files[stamp]
    THEN splitlines(files[stamp][LogName(task_id)])
    ELSE << >>

\* the returned log begins with the last n lines of the log file
TailReturned(log, stamp, task_id, n) ==
    LET lines == LogLines(stamp, task_id)
    IN (n > 0 /\ Len(lines) >= n)
           => StartsWith(log, join(SubSeq(lines, Len(lines) - n + 1, Len(lines))))

\* C19: get_task_result with tail_lines = n returns the last n lines of the
\* log of the task
C19_ResultTail ==
    [][/\ \A k \in Slots :
              (req[k].op = "result" /\ req'[k].op = "idle")
                  => TailReturned(last'.data.log, req[k].stamp, req[k].task_id,
                                  req[k].tail_lines)
       /\ \A n \in LineArgs :
              (/\ last'.op = "get_task_result"
               /\ last'.success
               /\ UNCHANGED req
               /\ handle_get_task_result(1, last'.stamp, last'.task_id, n))
                  => TailReturned(last'.data.log, last'.stamp, last'.task_id, n)]_vars

\* C20: a successful read for a stamp returns the text of a file that lies in
\* the workspace of that stamp
C20_ReadConfined ==
    [][\A x \in {0} \X Hashes, f \in ReadNames, m \in LineArgs :
           (/\ last'.op = "read_file"
            /\ last'.stamp = x
            /\ last'.success
            /\ handle_read_workspace_file(x, f, m))
               => \E name \in DOMAIN files[x] :
                      last'.data = truncate(splitlines(files[x][name]), m)]_vars

\* the operations whose results are returned to a caller
Exposed == Operations \cup {"generate", "archive"}
ErrorKinds == {"validation", "not_found", "invalid_state", "execution", "timeout"}

C22_TimeoutKills ==
    [][\A k \in Slots :
           (/\ req[k].op = "command"
            /\ req'[k].op = "idle"
            /\ last'.error = "timeout")
               => ~procs'[req[k].proc].alive]_vars

\* the requests that reconcile or cancel tasks
Observers == {"get_task_status", "get_task_result", "cancel_task"}

\* C23: the persisted status of a task leaves RUNNING only in a step of a
\* get_task_status, get_task_result or cancel_task request that names the
\* task; the ledger changes in no step but those of the task requests, so
\* the exit of a process and the stamp operations leave it as it is
C23_ObservedNotPushed ==
    [][/\ todos' # todos => last'.op \in Observers \cup {"deploy_and_run"}
       /\ \A i \in 1..Len(todos) :
              todos[i].status = "RUNNING" =>
                  \A j \in Positions(todos', todos[i].proc) :
                      todos'[j].status # "RUNNING" =>
                          /\ last'.op \in Observers
                          /\ Matches(todos[i], last'.stamp, last'.task_id)]_vars

\* the process of a task has just exited and the ledger still has it RUNNING
C23_Witness ==
    /\ last.op = "exit"
    /\ \E i \in 1..Len(todos) :
           /\ todos[i].proc = last.data
           /\ todos[i].status = "RUNNING"
           /\ ~procs[todos[i].proc].alive

\* C24: every task record of the ledger has an end time if and only if its
\* status is COMPLETED or CANCELLED
C24_EndTimeIffTerminal ==
    \A i \in 1..Len(todos) : (todos[i].end_time # None) <=> Terminal(todos[i].status)

\* a cancelled task with its end time next to a running one without
C24_Witness ==
    \E i, j \in 1..Len(todos) :
        /\ todos[i].status = "CANCELLED"
        /\ todos[i].end_time # None
        /\ todos[j].status = "RUNNING"
        /\ todos[j].end_time = None

\* C25: when cancel_task succeeds on a task recorded RUNNING, the process of
\* the task is not alive and the ledger has the task CANCELLED with an end
\* time; cancel_task for a stamp and task id that match no task fails with
\* not-found, kills nothing and leaves the ledger as it is
C25_CancelEffect ==
    [][/\ \A k \in Slots :
              (req[k].op = "cancel" /\ req'[k].op = "idle")
                  => LET task == req[k].snap[req[k].i]
                     IN /\ last'.success
                        /\ ~procs'[task.proc].alive
                        /\ \E j \in Positions(todos', task.proc) :
                               /\ todos'[j].status = "CANCELLED"
                               /\ todos'[j].end_time # None
       /\ (/\ last'.op = "cancel_task"
           /\ UNCHANGED req
           /\ sanitize_stamp(last'.stamp)
           /\ \A i \in 1..Len(todos) :
                  ~(todos[i].stamp = last'.stamp /\ todos[i].task_id = last'.task_id))
              => /\ ~last'.success
                 /\ last'.error = "not_found"
                 /\ UNCHANGED <<todos, procs>>]_vars

\* a cancel_task that succeeded on a task whose process was alive
C25_Witness ==
    /\ last.op = "cancel_task"
    /\ last.success
    /\ \E i \in 1..Len(todos) :
           /\ todos[i].stamp = last.stamp
           /\ todos[i].task_id = last.task_id
           /\ todos[i].status = "CANCELLED"
           /\ ~procs[todos[i].proc].alive
    /\ \A p \in 1..Len(procs) : ~procs[p].alive
    /\ Len(procs) = 1

\* C26: the write of a get_task_status request leaves every task that does not
\* match its keys with the status and end time the ledger held just before
\* the write
C26_StatusFrame ==
    [][\A k \in Slots :
           (req[k].op = "status" /\ req'[k].op = "idle")
               => \A i \in 1..Len(todos) :
                      ~Matches(todos[i], req[k].stamp, req[k].task_id)
                          => \E j \in Positions(todos', todos[i].proc) :
                                 /\ todos'[j].status = todos[i].status
                                 /\ todos'[j].end_time = todos[i].end_time]_vars

\* b is a, followed by zero or more elements
IsPrefix(a, b) == Len(a) <= Len(b) /\ SubSeq(b, 1, Len(a)) = a

\* C27: the history log is append-only: after every step the log before the
\* step is a prefix of the log after it
C27_HistoryAppendOnly == [][IsPrefix(history, history')]_vars

\* a full log written by different operations, an archival the last of them
C27_Witness ==
    /\ Len(history) = MaxHistory
    /\ history[1].event = "stamp_created"
    /\ history[2].event # "stamp_created"
    /\ history[MaxHistory].event = "stamp_archived"
    /\ last.op = "archive" /\ last.success

\* the mutating calls of the Identity Store and the discriminator each logs
Mutating == {"generate", "associate_task", "add_finding", "update_status", "archive"}

Discriminator(op) ==
    CASE op = "generate" -> "stamp_created"
      [] op = "associate_task" -> "task_associated"
      [] op = "add_finding" -> "finding_added"
      [] op = "update_status" -> "status_updated"
      [] op = "archive" -> "stamp_archived"

\* C28: a successful mutating call of the Identity Store appends exactly one
\* history record, of the call's discriminator and for the call's stamp; a call
\* that fails with not-found appends none
C28_OneRecordPerCall ==
    [][\A op \in Mutating :
           last'.op = op
               => /\ last'.success
                      => /\ Len(history') = Len(history) + 1
                         /\ SubSeq(history', 1, Len(history)) = history
                         /\ history'[Len(history')].event = Discriminator(op)
                         /\ history'[Len(history')].stamp = last'.stamp
                  /\ (~last'.success /\ last'.error = "not_found")
                      => history' = history]_vars

\* a task id associated a second time: two records, one entry in task_ids
C28_Witness ==
    /\ last.op = "associate_task" /\ last.success
    /\ Len(history) = MaxHistory
    /\ history[MaxHistory - 1].event = "task_associated"
    /\ history[MaxHistory].event = "task_associated"
    /\ history[MaxHistory - 1].task_id = history[MaxHistory].task_id
    /\ history[MaxHistory - 1].stamp = history[MaxHistory].stamp
    /\ last.stamp \in DOMAIN active
    /\ Len(active[last.stamp].task_ids) = 1

\* C29: the status of every active stamp is one of the four values; an update
\* of an active stamp to any of the four succeeds and sets it, whatever the
\* status before; an update to another value fails and changes no stamp
C29_StatusEnum ==
    /\ [](\A s \in DOMAIN active : active[s].status \in StampStatuses)
    /\ [][\A s \in StampIds, st \in StatusArgs :
              (last'.op = "update_status" /\ last'.stamp = s /\ last'.data = st)
                  => /\ (s \in DOMAIN active /\ st \in StampStatuses)
                         => /\ last'.success
                            /\ s \in DOMAIN active'
                            /\ active'[s].status = st
                     /\ st \notin StampStatuses
                         => /\ ~last'.success
                            /\ active' = active]_vars

\* a completed stamp set back to active
C29_Witness ==
    /\ last.op = "update_status" /\ last.success /\ last.data = "active"
    /\ last.stamp \in DOMAIN active
    /\ active[last.stamp].status = "active"
    /\ \E i \in 1..Len(history) :
           /\ history[i].event = "status_updated"
           /\ history[i].stamp = last.stamp
           /\ history[i].status = "completed"

\* C30: while a stamp stays in the active collection, its findings, events
\* and task_ids only grow: each list before a step is a prefix of the list
\* after it
C30_ListsOnlyGrow ==
    [][\A s \in DOMAIN active \cap DOMAIN active' :
           /\ IsPrefix(active[s].findings, active'[s].findings)
           /\ IsPrefix(active[s].events, active'[s].events)
           /\ IsPrefix(active[s].task_ids, active'[s].task_ids)]_vars

\* the effect of one history record on the active collection
ReplayRecord(A, r) ==
    CASE r.event = "stamp_created" -> Put(A, r.stamp, r.data)
      [] r.event = "task_associated" ->
             IF Contains(A[r.stamp].task_ids, r.task_id) THEN A
             ELSE [A EXCEPT ![r.stamp].task_ids = Append(@, r.task_id)]
      [] r.event = "finding_added" -> [A EXCEPT ![r.stamp].findings = Append(@, r.data)]
      [] r.event = "status_updated" -> [A EXCEPT ![r.stamp].status = r.status]
      [] r.event = "stamp_archived" -> Drop(A, r.stamp)

\* the logged mutations applied one after another, in the order of the log
RECURSIVE Replay(_)
Replay(H) ==
    IF H = << >> THEN << >>
    ELSE ReplayRecord(Replay(SubSeq(H, 1, Len(H) - 1)), H[Len(H)])

\* the collection without the events, which are not logged
Logged(A) == [s \in DOMAIN A |-> [A[s] EXCEPT !.events = << >>]]

\* C31: no update of the active collection is lost: the collection is the
\* result of applying, one after another, the mutations of the requests in the
\* order of the history log, and the events of a stamp change only by the
\* event one request adds to the list as it is
C31_NoLostStampUpdate ==
    /\ [](Logged(active) = Logged(Replay(history)))
    /\ [][\A s \in DOMAIN active \cap DOMAIN active' :
              \/ active'[s].events = active[s].events
              \/ last'.op = "generate" /\ last'.stamp = s
              \/ /\ last'.op = "add_event" /\ last'.stamp = s
                 /\ Len(active'[s].events) = Len(active[s].events) + 1
                 /\ IsPrefix(active[s].events, active'[s].events)]_vars

\* a deployment suspended while the stamp was paused has returned: the stamp
\* holds the status and the task id
C31_Witness ==
    /\ last.op = "deploy_and_run" /\ last.success
    /\ last.stamp \in DOMAIN active
    /\ active[last.stamp].status = "paused"
    /\ Contains(active[last.stamp].task_ids, last.task_id)
    /\ Len(history) = MaxHistory
    /\ history[MaxHistory - 1].event = "status_updated"
    /\ history[MaxHistory].event = "task_associated"

\* C32: with no cleanup, every stamp generate has returned (the active ones
\* among them) has a workspace whenever a request is served, and a
\* deploy_and_run for it never fails for a missing workspace
C32_WorkspaceWithStamp ==
    /\ [](\A s \in Minted \cup DOMAIN active : workspace_exists(files, s))
    /\ [][(last'.op = "deploy_and_run" /\ last'.stamp \in Minted)
              => last'.error # "not_found"]_vars

\* the request served right after generate is a deploy_and_run for its stamp:
\* it has passed the workspace test and waits for the script to start
C32_Witness ==
    /\ Len(history) = 1
    /\ history[1].event = "stamp_created"
    /\ last.op = "deploy_and_run" /\ last.error = "await"
    /\ last.stamp = history[1].stamp
    /\ last.stamp \in DOMAIN active

\* the stamps that were archived and are not active
Archived == Minted \ DOMAIN active

\* C33: only the cleanup removes a workspace or a file of one; an archival
\* leaves the workspaces, the ledger and the processes as they are; the tasks
\* of an archived stamp are still reported by get_task_status and still
\* cancelled by cancel_task
C33_OnlyCleanupDestroys ==
    [][/\ last'.op # "cleanup"
              => \A s \in DOMAIN files :
                     /\ s \in DOMAIN files'
                     /\ DOMAIN files[s] \subseteq DOMAIN files'[s]
       /\ (last'.op = "archive" /\ last'.success)
              => UNCHANGED <<files, todos, procs>>
       /\ (/\ last'.op = "get_task_status" /\ last'.stamp \in Archived
           /\ last'.error # "await")
              => last'.success
       /\ \A k \in Slots :
              (req[k].op = "cancel" /\ req'[k].op = "idle" /\ req[k].stamp \in Archived)
                  => /\ last'.success
                     /\ \E j \in Positions(todos', req[k].snap[req[k].i].proc) :
                            todos'[j].status = "CANCELLED"]_vars

\* a task of an archived stamp was cancelled: the workspace and the log of the
\* task are there, the process was running until then
C33_Witness ==
    /\ last.op = "cancel_task" /\ last.success
    /\ last.stamp \in Archived
    /\ workspace_exists(files, last.stamp)
    /\ LogName(last.task_id) \in DOMAIN files[last.stamp]
    /\ history[Len(history)].event = "stamp_archived"
    /\ \E i \in 1..Len(todos) :
           /\ todos[i].stamp = last.stamp /\ todos[i].task_id = last.task_id
           /\ todos[i].status = "CANCELLED"
           /\ ~procs[todos[i].proc].alive

\* C34: a process deploy_and_run has spawned stops only when it terminates by
\* itself or when a cancel_task on its own task runs its kill
C34_NoImplicitStop ==
    [][\A p \in 1..Len(procs) :
           (procs[p].alive /\ ~procs'[p].alive)
               => \/ last'.op = "exit" /\ last'.data = p
                  \/ \E k \in Slots :
                         /\ req[k].op = "cancel" /\ req[k].pc = "kill"
                         /\ req'[k].pc = "save"
                         /\ req[k].snap[req[k].i].proc = p]_vars

\* C36: the kill of a cancel_task reaches no process but the one that
\* deploy_and_run spawned for the cancelled task
C36_KillsOwnProcess ==
    [][\A k \in Slots :
           (req[k].op = "cancel" /\ req[k].pc = "kill" /\ req'[k].pc = "save")
               => \A p \in 1..Len(procs) :
                      (procs[p].alive /\ ~procs'[p].alive)
                          => p = req[k].snap[req[k].i].proc]_vars

\* C35: a task goes from RUNNING to COMPLETED in the ledger only when its
\* process is no longer alive
C35_CompletedOnlyIfDead ==
    [][\A i \in 1..Len(todos), j \in 1..Len(todos') :
           (/\ todos[i].proc = todos'[j].proc
            /\ todos[i].status = "RUNNING"
            /\ todos'[j].status = "COMPLETED")
               => ~procs'[todos[i].proc].alive]_vars

\* C37: cancel_task decides on the status in the ledger alone: a request for a
\* task recorded RUNNING goes on to the kill whether or not the process is
\* alive and leaves the ledger as it is until then; when it returns it has
\* succeeded and the task is CANCELLED with the time of the call as end_time
C37_CancelOnLedgerStatus ==
    [][/\ \A i \in 1..Len(todos) :
              (/\ \A k \in Slots : req[k].op = "idle"
               /\ last'.op = "cancel_task"
               /\ sanitize_stamp(last'.stamp)
               /\ i = FindTask(todos, last'.stamp, last'.task_id)
               /\ todos[i].status = "RUNNING")
                  => /\ last'.error = "await"
                     /\ \E k \in Slots : req'[k].op = "cancel" /\ req'[k].i = i
                     /\ UNCHANGED todos
       /\ \A k \in Slots :
              (req[k].op = "cancel" /\ req'[k].op = "idle")
                  => /\ last'.success
                     /\ todos'[req[k].i].status = "CANCELLED"
                     /\ todos'[req[k].i].end_time = now']_vars

\* a cancellation was accepted for a task recorded RUNNING whose process had
\* exited by itself: it is about to run its kill
C37_Witness ==
    \E k \in Slots :
        /\ req[k].op = "cancel" /\ req[k].pc = "kill"
        /\ last.op = "cancel_task" /\ last.error = "await"
        /\ todos[req[k].i].status = "RUNNING"
        /\ ~procs[todos[req[k].i].proc].alive
        /\ todos[req[k].i].pid \notin LivePids(procs)
====
